---------------------------- MODULE Spec2Model ----------------------------
(***************************************************************************)
(* Model of tools/merge_station_codes.py, the StationCode.csv merge tool:  *)
(* the conflict resolver merge(), its helper pick_best_current(), the      *)
(* name-override pass, verify(), write_csv() and the pipeline main().      *)
(*                                                                         *)
(* Text.  TLA+ strings are ASCII, so the Japanese literals of the source   *)
(* are written romanised; each definition names the literal it stands for. *)
(*                                                                         *)
(* Objects.  Python dicts are objects: merge() stores in merged[key]       *)
(* either the very dict held by current[key][i], the very dict held by     *)
(* yono[key], or a fresh .copy().  The model keeps the two input maps as   *)
(* the heap and merged as a map from key to a reference:                   *)
(*   [kind |-> "current", idx |-> i]   the object current[key][i]          *)
(*   [kind |-> "yono"]                 the object yono[key]                *)
(*   [kind |-> "copy", entry |-> e]    a fresh dict with value e           *)
(* so that an assignment through merged[key] changes what the code changes.*)
(***************************************************************************)
EXTENDS Integers, Sequences, FiniteSets, TLC

VARIABLES
    pc,          \* position of the caller (harness) or of main()
    current,     \* heap: the dict `current` (key -> list of entry dicts)
    yono,        \* heap: the dict `yono` (key -> entry dict)
    merged,      \* the dict returned by the last merge(): key -> reference
    argCurrent,  \* value of `current` when merge() was first called
    argYono,     \* value of `yono` when merge() was first called
    preOverride, \* value of merged at line 356, before the override pass
    firstResult, \* value of the map returned by the first merge() call
    stats,       \* the stats dict of the last merge()
    warned,      \* the keys the last merge() printed a [warn] line for
    yonoSource,  \* the rows of the CSV at YONO_URL
    resourcesCsv, \* the file RESOURCES_CSV
    docsCsv,     \* the file DOCS_CSV
    startResources, \* RESOURCES_CSV as it was when main() started
    startDocs,   \* DOCS_CSV as it was when main() started
    verifyResult, \* what verify(merged) returned: <<>> before it has run
    exitStatus,  \* the exit status of the process: <<>> while it runs
    fetchResult  \* whether urlopen/read returned: <<>> before the download

files == <<yonoSource, resourcesCsv, docsCsv, startResources, startDocs,
           verifyResult, exitStatus, fetchResult>>

vars == <<pc, current, yono, merged, argCurrent, argYono, preOverride,
          firstResult, stats, warned, files>>

-----------------------------------------------------------------------------
(* Configuration tables (module level constants of the script).            *)

\* Python None, the value of USE_YONO[key] when no note is configured.
None == "<None>"

\* The CompanyName literal of a test row: '試験' (lines 266, 332).
Shiken == "Shiken"

\* USE_YONO (lines 46-89): key -> note or None.
USE_YONO ==
    (<<0, 6, 48>> :> None) @@ (<<0, 41, 32>> :> None) @@
    (<<0, 41, 33>> :> None) @@ (<<0, 41, 34>> :> None) @@
    (<<0, 42, 13>> :> None) @@
    (<<0, 16, 129>> :> None) @@ (<<0, 16, 131>> :> None) @@
    (<<0, 17, 36>> :> None) @@ (<<0, 157, 2>> :> None) @@
    (<<0, 212, 9>> :> None) @@ (<<0, 214, 6>> :> None) @@
    (<<0, 250, 10>> :> None) @@ (<<2, 157, 34>> :> None) @@
    (<<2, 158, 11>> :> None) @@ (<<2, 158, 31>> :> None) @@
    (<<2, 165, 49>> :> None) @@ (<<2, 197, 84>> :> None) @@
    (<<2, 197, 90>> :> None) @@ (<<2, 231, 1>> :> None) @@
    (<<2, 231, 3>> :> None) @@ (<<2, 239, 27>> :> None) @@
    (<<2, 255, 189>> :> None) @@ (<<2, 255, 199>> :> None) @@
    (<<3, 215, 124>> :> None) @@
    (<<0, 7, 40>> :> None) @@ (<<0, 80, 27>> :> None) @@
    (<<0, 83, 26>> :> None) @@
    (<<0, 11, 54>> :> "kyu Kinosaki") @@
    (<<0, 36, 203>> :> "kyu Higashi-Shinoro") @@
    (<<0, 55, 193>> :> "2006.4.21 haishi") @@
    (<<0, 55, 194>> :> "06.4.21 haishi") @@
    (<<0, 55, 228>> :> "06.4.21 haishi") @@
    (<<0, 55, 230>> :> "2006.4.21 haishi") @@
    (<<0, 76, 1>> :> "kyu, Noto-Anamizu") @@
    (<<1, 134, 90>> :> "6-go sen")

\* USE_CURRENT (lines 92-99).
USE_CURRENT ==
    { <<0, 0, 1>>, <<0, 6, 47>>, <<1, 129, 52>>, <<1, 129, 66>>,
      <<2, 148, 4>>, <<2, 197, 86>> }

\* EXCLUDE_YONO (lines 102-104).
EXCLUDE_YONO == { <<3, 255, 255>> }

\* STATION_NAME_OVERRIDES (lines 107-109): 'とうきょうスカイツリー'.
STATION_NAME_OVERRIDES == (<<0, 157, 2>> :> "TokyoSkytree")

-----------------------------------------------------------------------------
(* Python truthiness of a note (`if note_to_add:`): None and '' are false. *)
Truthy(s) == s # None /\ s # ""

(* The value of a dict built from its seven fields.                        *)
Entry(key, company, line_name, station_name, note) ==
    [AreaCode |-> key[1], LineCode |-> key[2], StationCode |-> key[3],
     CompanyName |-> company, LineName |-> line_name,
     StationName |-> station_name, Note |-> note]

-----------------------------------------------------------------------------
(* pick_best_current (lines 260-268).  The code returns the object, so the *)
(* model computes the index of the returned element.                       *)

PickBestLastReal(candidates) ==
    IF \E i \in 1..Len(candidates) : candidates[i].CompanyName # Shiken
    THEN CHOOSE i \in 1..Len(candidates) :
            /\ candidates[i].CompanyName # Shiken
            /\ \A j \in 1..Len(candidates) :
                  candidates[j].CompanyName # Shiken => j <= i
    ELSE 1

PickBestIndex(candidates) ==
    IF \E i \in 1..Len(candidates) : candidates[i].CompanyName # Shiken
    THEN CHOOSE i \in 1..Len(candidates) :
            /\ candidates[i].CompanyName # Shiken
            /\ \A j \in 1..(i - 1) : candidates[j].CompanyName = Shiken
    ELSE 1

pick_best_current(candidates) == candidates[PickBestIndex(candidates)]

-----------------------------------------------------------------------------
(* References and their values.                                            *)

NoRef == [kind |-> "none"]
CurrentRef(i) == [kind |-> "current", idx |-> i]
YonoRef == [kind |-> "yono"]
CopyRef(e) == [kind |-> "copy", entry |-> e]

\* The value of the object a reference of merged[key] points to.
Deref(cur, yo, key, ref) ==
    CASE ref.kind = "current" -> cur[key][ref.idx]
      [] ref.kind = "yono" -> yo[key]
      [] ref.kind = "copy" -> ref.entry

\* The value of a whole merged dict.
ValueOf(cur, yo, m) == [k \in DOMAIN m |-> Deref(cur, yo, k, m[k])]

-----------------------------------------------------------------------------
(* Keys are tuples; sorted() orders them lexicographically (lines 289, 373).*)

KeyLess(a, b) ==
    \/ a[1] < b[1]
    \/ a[1] = b[1] /\ a[2] < b[2]
    \/ a[1] = b[1] /\ a[2] = b[2] /\ a[3] < b[3]

MinKey(S) == CHOOSE a \in S : \A b \in S \ {a} : KeyLess(a, b)

RECURSIVE SortedKeys(_)
SortedKeys(S) ==
    IF S = {} THEN <<>> ELSE <<MinKey(S)>> \o SortedKeys(S \ {MinKey(S)})

-----------------------------------------------------------------------------
(* The stats dict of merge (lines 280-287).                                *)

ZeroStats ==
    [current_only |-> 0, yono_only_added |-> 0, both_same |-> 0,
     conflict_use_current |-> 0, conflict_use_yono |-> 0,
     duplicates_removed |-> 0]

\* `if len(current[key]) > 1: stats["duplicates_removed"] += len(...) - 1`
DupInc(st, candidates) ==
    IF Len(candidates) > 1
    THEN [st EXCEPT !.duplicates_removed = @ + Len(candidates) - 1]
    ELSE st

-----------------------------------------------------------------------------
(* The five cases of the loop body of merge (lines 289-356).  Each takes   *)
(* the heap, the key and the stats so far, and yields the reference stored *)
(* in merged[key] (NoRef when the body stores nothing) and the new stats.  *)

\* A plausible slip: the forced-current key takes the YONO entry when there is one.
Case1PreferYono(cur, yo, key, st) ==
    [ref |-> IF key \in DOMAIN yo THEN YonoRef
             ELSE IF key \in DOMAIN cur
                  THEN CurrentRef(PickBestIndex(cur[key])) ELSE NoRef,
     stats |-> [st EXCEPT !.conflict_use_current = @ + 1]]

\* A plausible slip: the branch of lines 299-300 is missing.
Case1NoFallback(cur, yo, key, st) ==
    LET in_current == key \in DOMAIN cur
        st1 == IF in_current THEN DupInc(st, cur[key]) ELSE st
    IN  [ref |-> IF in_current THEN CurrentRef(PickBestIndex(cur[key]))
                 ELSE NoRef,
         stats |-> [st1 EXCEPT !.conflict_use_current = @ + 1]]

\* Case 1 (lines 293-302): key in USE_CURRENT.
Case1(cur, yo, key, st) ==
    LET in_current == key \in DOMAIN cur
        in_yono == key \in DOMAIN yo
        st1 == IF in_current THEN DupInc(st, cur[key]) ELSE st
    IN  [ref |-> IF in_current THEN CurrentRef(PickBestIndex(cur[key]))
                 ELSE IF in_yono THEN YonoRef
                 ELSE NoRef,
         stats |-> [st1 EXCEPT !.conflict_use_current = @ + 1]]

\* A plausible slip: the fallback branch (lines 321-324) is missing.
Case2NoFallback(cur, yo, key, st) ==
    LET note_to_add == USE_YONO[key]
        in_current == key \in DOMAIN cur
        best == pick_best_current(cur[key])
        named == IF in_current
                 THEN [best EXCEPT !.StationName = yo[key].StationName]
                 ELSE yo[key]
        base == IF Truthy(note_to_add)
                THEN [named EXCEPT !.Note = note_to_add] ELSE named
    IN  [ref |-> IF key \in DOMAIN yo THEN CopyRef(base) ELSE NoRef,
         stats |-> [st EXCEPT !.conflict_use_yono = @ + 1]]

\* A plausible slip: the note is appended to the Note instead of replacing it.
Case2AppendNote(cur, yo, key, st) ==
    LET note_to_add == USE_YONO[key]
        in_current == key \in DOMAIN cur
        in_yono == key \in DOMAIN yo
        best == pick_best_current(cur[key])
        named == IF in_current
                 THEN [best EXCEPT !.StationName = yo[key].StationName]
                 ELSE yo[key]
        base == IF Truthy(note_to_add)
                THEN [named EXCEPT !.Note = @ \o note_to_add] ELSE named
    IN  [ref |-> IF in_yono THEN CopyRef(base)
                 ELSE IF in_current THEN CurrentRef(PickBestIndex(cur[key]))
                 ELSE NoRef,
         stats |-> [st EXCEPT !.conflict_use_yono = @ + 1]]

\* A plausible slip: the whole YONO entry is taken, not only its StationName.
Case2WholeYono(cur, yo, key, st) ==
    LET note_to_add == USE_YONO[key]
        in_current == key \in DOMAIN cur
        in_yono == key \in DOMAIN yo
        base == IF Truthy(note_to_add)
                THEN [yo[key] EXCEPT !.Note = note_to_add] ELSE yo[key]
    IN  [ref |-> IF in_yono THEN CopyRef(base)
                 ELSE IF in_current THEN CurrentRef(PickBestIndex(cur[key]))
                 ELSE NoRef,
         stats |-> [st EXCEPT !.conflict_use_yono = @ + 1]]

\* A plausible slip: the fallback attaches the note like the other branches.
Case2FallbackWithNote(cur, yo, key, st) ==
    LET note_to_add == USE_YONO[key]
        in_current == key \in DOMAIN cur
        in_yono == key \in DOMAIN yo
        best == pick_best_current(cur[key])
        named == IF in_current
                 THEN IF in_yono
                      THEN [best EXCEPT !.StationName = yo[key].StationName]
                      ELSE best
                 ELSE yo[key]
        base == IF Truthy(note_to_add)
                THEN [named EXCEPT !.Note = note_to_add] ELSE named
    IN  [ref |-> IF in_yono \/ in_current THEN CopyRef(base) ELSE NoRef,
         stats |-> [st EXCEPT !.conflict_use_yono = @ + 1]]

\* Case 2 (lines 304-326): key in USE_YONO.
Case2(cur, yo, key, st) ==
    LET note_to_add == USE_YONO[key]
        in_current == key \in DOMAIN cur
        in_yono == key \in DOMAIN yo
        best == pick_best_current(cur[key])
        \* lines 310-311 / 317: the .copy(), with the StationName replaced
        named == IF in_current
                 THEN [best EXCEPT !.StationName = yo[key].StationName]
                 ELSE yo[key]
        \* lines 312-313 / 318-319
        base == IF Truthy(note_to_add)
                THEN [named EXCEPT !.Note = note_to_add] ELSE named
        \* lines 314-315: only in the branch where both sides have the key
        st1 == IF in_yono /\ in_current THEN DupInc(st, cur[key]) ELSE st
    IN  [ref |-> IF in_yono THEN CopyRef(base)
                 ELSE IF in_current THEN CurrentRef(PickBestIndex(cur[key]))
                 ELSE NoRef,
         stats |-> [st1 EXCEPT !.conflict_use_yono = @ + 1],
         \* line 324: the [warn] line of the fallback branch
         warn |-> ~in_yono /\ in_current]

\* A plausible slip: the test for a test row is inverted.
Case3Inverted(cur, yo, key, st) ==
    LET i == PickBestIndex(cur[key])
        isTest == cur[key][i].CompanyName = Shiken
    IN  [ref |-> IF isTest THEN CurrentRef(i) ELSE YonoRef,
         stats |-> DupInc(IF isTest
                          THEN [st EXCEPT !.both_same = @ + 1]
                          ELSE [st EXCEPT !.yono_only_added = @ + 1],
                          cur[key])]

\* Case 3 (lines 328-342): key in both maps, no override.
Case3(cur, yo, key, st) ==
    LET i == PickBestIndex(cur[key])
        isTest == cur[key][i].CompanyName = Shiken
    IN  [ref |-> IF isTest THEN YonoRef ELSE CurrentRef(i),
         stats |-> DupInc(IF isTest
                          THEN [st EXCEPT !.yono_only_added = @ + 1]
                          ELSE [st EXCEPT !.both_same = @ + 1],
                          cur[key])]

\* A plausible slip: the first row is taken, not the row pick_best_current
\* chooses.
Case4TakesFirst(cur, yo, key, st) ==
    [ref |-> CurrentRef(1),
     stats |-> [DupInc(st, cur[key]) EXCEPT !.current_only = @ + 1]]

\* Case 4 (lines 344-350): key in current only.
Case4(cur, yo, key, st) ==
    [ref |-> CurrentRef(PickBestIndex(cur[key])),
     stats |-> [DupInc(st, cur[key]) EXCEPT !.current_only = @ + 1]]

\* Case 5 (lines 352-356): key in yono only.
Case5(cur, yo, key, st) ==
    [ref |-> IF key \in DOMAIN yo THEN YonoRef ELSE NoRef,
     stats |-> IF key \in DOMAIN yo
               THEN [st EXCEPT !.yono_only_added = @ + 1] ELSE st]

\* A plausible slip: the test for a key in both maps comes before the test
\* for a forced-YONO key.
MergeKeyBothFirst(cur, yo, key, st) ==
    IF key \in USE_CURRENT THEN Case1(cur, yo, key, st)
    ELSE IF key \in DOMAIN cur /\ key \in DOMAIN yo THEN Case3(cur, yo, key, st)
    ELSE IF key \in DOMAIN USE_YONO THEN Case2(cur, yo, key, st)
    ELSE IF key \in DOMAIN cur THEN Case4(cur, yo, key, st)
    ELSE Case5(cur, yo, key, st)

\* The loop body (lines 290-356): the first case whose guard holds.
MergeKey(cur, yo, key, st) ==
    IF key \in USE_CURRENT THEN Case1(cur, yo, key, st)
    ELSE IF key \in DOMAIN USE_YONO THEN Case2(cur, yo, key, st)
    ELSE IF key \in DOMAIN cur /\ key \in DOMAIN yo THEN Case3(cur, yo, key, st)
    ELSE IF key \in DOMAIN cur THEN Case4(cur, yo, key, st)
    ELSE Case5(cur, yo, key, st)

\* `merged[key] = ...` for the reference r.ref the body yields, if any, and
\* the key added to the keys warned about if the body printed a [warn] line.
MergePut(acc, key, r) ==
    [merged |-> IF r.ref = NoRef THEN acc.merged
                ELSE (key :> r.ref) @@ acc.merged,
     stats |-> r.stats,
     warned |-> IF "warn" \in DOMAIN r /\ r.warn
                THEN acc.warned \cup {key} ELSE acc.warned]

\* The loop `for key in sorted(all_keys)` (line 289), from position i on,
\* with acc.merged the merged dict, acc.stats the stats and acc.warned the
\* keys warned about so far.
RECURSIVE MergeLoop(_, _, _, _, _)
MergeLoop(cur, yo, keys, i, acc) ==
    IF i > Len(keys) THEN acc
    ELSE MergeLoop(cur, yo, keys, i + 1,
                   MergePut(acc, keys[i],
                            MergeKey(cur, yo, keys[i], acc.stats)))

-----------------------------------------------------------------------------
(* The name-override pass of merge (lines 358-361).                        *)

\* The heap after `merged[key]["StationName"] = value`: the assignment
\* changes the object merged[key] refers to, wherever else it is held.
Store(cur, yo, m, key, value) ==
    LET ref == m[key]
    IN  [current |-> IF ref.kind = "current"
                     THEN [cur EXCEPT ![key][ref.idx].StationName = value]
                     ELSE cur,
         yono |-> IF ref.kind = "yono"
                  THEN [yo EXCEPT ![key].StationName = value]
                  ELSE yo,
         merged |-> IF ref.kind = "copy"
                    THEN [m EXCEPT ![key].entry.StationName = value]
                    ELSE m]

\* A plausible slip: the trailing character of the name is cut (the comment
\* of the table says the trailing mark of the YONO name is to be removed).
StripLastChar(cur, yo, m, key, name) ==
    LET old == Deref(cur, yo, key, m[key]).StationName
    IN  Store(cur, yo, m, key, SubSeq(old, 1, Len(old) - 1))

\* A plausible slip: the corrected name is written to a copy only, an entry
\* shared with an input map is left as it is.
OverrideCopiesOnly(cur, yo, m, key, name) ==
    IF m[key].kind = "copy" THEN Store(cur, yo, m, key, name)
    ELSE [current |-> cur, yono |-> yo, merged |-> m]

\* A plausible slip: the entry is replaced by a new one that has the name
\* and the key only.
OverrideWholeEntry(cur, yo, m, key, name) ==
    [current |-> cur, yono |-> yo,
     merged |-> [m EXCEPT ![key] = CopyRef(Entry(key, "", "", name, ""))]]

\* `merged[key]["StationName"] = name` (line 361).
OverrideStationName(cur, yo, m, key, name) == Store(cur, yo, m, key, name)

\* `for key, name in STATION_NAME_OVERRIDES.items()` (lines 359-361), from
\* position i of the table's keys on; h is the heap [current, yono, merged].
RECURSIVE OverrideLoop(_, _, _)
OverrideLoop(h, keys, i) ==
    IF i > Len(keys) THEN h
    ELSE OverrideLoop(
            IF keys[i] \in DOMAIN h.merged
            THEN OverrideStationName(h.current, h.yono, h.merged, keys[i],
                                     STATION_NAME_OVERRIDES[keys[i]])
            ELSE h,
            keys, i + 1)

-----------------------------------------------------------------------------
(* merge(current, yono) (lines 271-368): the heap when it returns, the     *)
(* returned dict, the stats, and the value of merged before the override   *)
(* pass.                                                                   *)
MergeReturn(cur, yo, loop, h) ==
    [current |-> h.current, yono |-> h.yono, merged |-> h.merged,
     stats |-> loop.stats,
     warned |-> loop.warned,
     preOverride |-> ValueOf(cur, yo, loop.merged)]

MergeOverride(cur, yo, loop) ==
    MergeReturn(cur, yo, loop,
                OverrideLoop([current |-> cur, yono |-> yo,
                              merged |-> loop.merged],
                             SortedKeys(DOMAIN STATION_NAME_OVERRIDES), 1))

merge(cur, yo) ==
    MergeOverride(cur, yo,
                  MergeLoop(cur, yo, SortedKeys(DOMAIN cur \cup DOMAIN yo), 1,
                            [merged |-> <<>>, stats |-> ZeroStats,
                             warned |-> {}]))

-----------------------------------------------------------------------------
(* Text.  A text is a string; its characters are read with CharAt.  Six    *)
(* ASCII marks are used to write characters a TLA+ string cannot hold:     *)
(*    "^" is U+007F,  "{" is U+0080,  "@" is U+00A0 (no-break space),      *)
(*    "~" is U+00E9,  "|" is U+024F,  "}" is U+0250.                       *)
(* The letters of a romanised name stand for kana and kanji (U+3040 and    *)
(* above); like them they lie outside U+0080..U+024F.                      *)

CharAt(s, i) == SubSeq(s, i, i)

\* The code point of a character of the model's texts.
CodePointOf(c) ==
    LET seg1 == " !"
        seg2 == "#$%&'()*+,-./0123456789:;<=>?"
        seg3 == "ABCDEFGHIJKLMNOPQRSTUVWXYZ["
        seg5 == "]"
        seg4 == "abcdefghijklmnopqrstuvwxyz"
        Pos(seg) == CHOOSE i \in 1..Len(seg) : CharAt(seg, i) = c
        In(seg) == \E i \in 1..Len(seg) : CharAt(seg, i) = c
    IN  CASE c = "^" -> 127
          [] c = "{" -> 128
          [] c = "@" -> 160
          [] c = "~" -> 233
          [] c = "|" -> 591
          [] c = "}" -> 592
          [] c = "_" -> 95
          [] c = "\t" -> 9
          [] c = "\n" -> 10
          [] c = "\f" -> 12
          [] c = "\r" -> 13
          [] In(seg1) -> 31 + Pos(seg1)
          [] In(seg2) -> 34 + Pos(seg2)
          [] In(seg3) -> 64 + Pos(seg3)
          [] In(seg5) -> 92 + Pos(seg5)
          [] In(seg4) -> 96 + Pos(seg4)

\* The characters of the model's texts.
Characters ==
    LET all == " !#$%&'()*+,-./0123456789:;<=>?@ABCDEFGHIJKLMNOPQRSTUVWXYZ[]^_abcdefghijklmnopqrstuvwxyz{|}~\t\n\f\r"
    IN  { CharAt(all, i) : i \in 1..Len(all) }

\* CodePointOf as a table.
OrdTable == [c \in Characters |-> CodePointOf(c)]

\* ord(ch) (line 119).
Ord(c) == OrdTable[c]

\* A plausible slip: the upper end of the range is left out.
InGarbledRangeOpenEnd(code) == 128 <= code /\ code < 591

\* `0x80 <= code <= 0x024F` (line 120).
InGarbledRange(code) == 128 <= code /\ code <= 591

\* is_garbled (lines 112-122).
is_garbled(text) ==
    \E i \in 1..Len(text) : InGarbledRange(Ord(CharAt(text, i)))

\* The characters str.strip() removes (those str.isspace() is true for),
\* among those of the model's texts; U+00A0 is one of them.
IsSpace(c) == c \in {" ", "\t", "\n", "\r", "\f", "@"}

RECURSIVE LStrip(_)
LStrip(s) ==
    IF s # "" /\ IsSpace(CharAt(s, 1)) THEN LStrip(SubSeq(s, 2, Len(s))) ELSE s

RECURSIVE RStrip(_)
RStrip(s) ==
    IF s # "" /\ IsSpace(CharAt(s, Len(s)))
    THEN RStrip(SubSeq(s, 1, Len(s) - 1)) ELSE s

\* str.strip() (lines 163-165, 226-235).
Strip(s) == LStrip(RStrip(s))

\* The value of a digit character in int(text, base), or -1 for a character
\* that is no digit.
DigitValueOf(c) ==
    LET lower == "0123456789abcdefghijklmnopqrstuvwxyz"
        upper == "0123456789ABCDEFGHIJKLMNOPQRSTUVWXYZ"
    IN  IF \E i \in 1..Len(lower) : CharAt(lower, i) = c
        THEN (CHOOSE i \in 1..Len(lower) : CharAt(lower, i) = c) - 1
        ELSE IF \E i \in 1..Len(upper) : CharAt(upper, i) = c
        THEN (CHOOSE i \in 1..Len(upper) : CharAt(upper, i) = c) - 1
        ELSE -1

\* DigitValueOf as a table.
DigitTable == [c \in Characters |-> DigitValueOf(c)]

DigitValue(c) == DigitTable[c]

\* The number written by the digits of s in the base, most significant first.
RECURSIVE DigitsValue(_, _)
DigitsValue(s, base) ==
    IF s = "" THEN 0
    ELSE DigitsValue(SubSeq(s, 1, Len(s) - 1), base) * base
            + DigitValue(CharAt(s, Len(s)))

\* int() on the digits that follow the sign and the prefix.
ParseDigits(digits, negative, base) ==
    IF /\ digits # ""
       /\ \A i \in 1..Len(digits) :
             DigitValue(CharAt(digits, i)) \in 0..(base - 1)
    THEN [ok |-> TRUE,
          value |-> IF negative THEN 0 - DigitsValue(digits, base)
                    ELSE DigitsValue(digits, base)]
    ELSE [ok |-> FALSE, value |-> 0]

\* int() on the text that follows the sign.
ParseUnsigned(s, negative, base) ==
    IF base = 16 /\ Len(s) >= 2 /\ SubSeq(s, 1, 2) \in {"0x", "0X"}
    THEN ParseDigits(SubSeq(s, 3, Len(s)), negative, base)
    ELSE ParseDigits(s, negative, base)

\* int() on the text without its surrounding whitespace.
ParseSigned(s, base) ==
    IF s # "" /\ CharAt(s, 1) \in {"+", "-"}
    THEN ParseUnsigned(SubSeq(s, 2, Len(s)), CharAt(s, 1) = "-", base)
    ELSE ParseUnsigned(s, FALSE, base)

\* int(text, base) for base 10 and 16 (lines 157-159, 226-228): surrounding
\* whitespace, an optional sign, for base 16 an optional 0x prefix, then one
\* or more digits of the base.  ok is FALSE where int raises ValueError.
\* (Underscores between digits, which int also accepts, are not modelled.)
ParseInt(text, base) == ParseSigned(Strip(text), base)

\* str(n) of an int, as csv.writer writes a number (lines 384-386).
RECURSIVE NatToText(_)
NatToText(n) ==
    IF n < 10 THEN CharAt("0123456789", n + 1)
    ELSE NatToText(n \div 10) \o CharAt("0123456789", (n % 10) + 1)

IntToText(n) == IF n < 0 THEN "-" \o NatToText(0 - n) ELSE NatToText(n)

-----------------------------------------------------------------------------
(* CSV files.  A file is the sequence of its rows, a row the sequence of   *)
(* its cells (what csv.reader yields and csv.writer takes).                *)

NoFile == [exists |-> FALSE, rows |-> <<>>]
File(rows) == [exists |-> TRUE, rows |-> rows]

\* HEADER (line 40).
HEADER ==
    <<"AreaCode", "LineCode", "StationCode", "CompanyName", "LineName",
      "StationName", "Note">>

-----------------------------------------------------------------------------
(* download_yono, after the download (lines 143-196).                      *)

\* A plausible slip: the test against EXCLUDE_YONO (lines 173-175) is missing.
YonoFieldsNoExclude(area, line, station, company, line_name, station_name) ==
    IF \/ station_name = ""
       \/ is_garbled(company)
       \/ is_garbled(line_name)
       \/ is_garbled(station_name)
    THEN [skip |-> TRUE, key |-> <<>>, entry |-> <<>>]
    ELSE [skip |-> FALSE, key |-> <<area, line, station>>,
          entry |-> Entry(<<area, line, station>>, company, line_name,
                          station_name, "")]

\* A plausible slip: only the station name is tested by is_garbled.
YonoFieldsNameOnly(area, line, station, company, line_name, station_name) ==
    IF \/ station_name = ""
       \/ <<area, line, station>> \in EXCLUDE_YONO
       \/ is_garbled(station_name)
    THEN [skip |-> TRUE, key |-> <<>>, entry |-> <<>>]
    ELSE [skip |-> FALSE, key |-> <<area, line, station>>,
          entry |-> Entry(<<area, line, station>>, company, line_name,
                          station_name, "")]

\* The end of the loop body (lines 163-193), for a row whose codes parsed.
YonoFields(area, line, station, company, line_name, station_name) ==
    IF \/ station_name = ""
       \/ <<area, line, station>> \in EXCLUDE_YONO
       \/ is_garbled(company)
       \/ is_garbled(line_name)
       \/ is_garbled(station_name)
    THEN [skip |-> TRUE, key |-> <<>>, entry |-> <<>>]
    ELSE [skip |-> FALSE, key |-> <<area, line, station>>,
          entry |-> Entry(<<area, line, station>>, company, line_name,
                          station_name, "")]

\* The try block (lines 156-161), on the three parsed codes.
YonoCodes(row, area, line, station) ==
    IF ~(area.ok /\ line.ok /\ station.ok)
    THEN [skip |-> TRUE, key |-> <<>>, entry |-> <<>>]
    ELSE YonoFields(area.value, line.value, station.value,
                    Strip(row[4]), Strip(row[5]), Strip(row[6]))

\* One row of the loop body (lines 153-193): skip is TRUE where the body
\* reaches a `continue`, and otherwise key and entry are what it stores.
YonoRow(row) ==
    IF Len(row) < 6 THEN [skip |-> TRUE, key |-> <<>>, entry |-> <<>>]
    ELSE YonoCodes(row, ParseInt(row[1], 16), ParseInt(row[2], 16),
                   ParseInt(row[3], 16))

\* A plausible slip: the first row of a key is kept.
YonoPutFirstWins(entries, r) ==
    IF r.skip THEN entries ELSE entries @@ (r.key :> r.entry)

\* `entries[key] = {...}` (line 185): a later row of a key replaces the
\* earlier one.
YonoPut(entries, r) ==
    IF r.skip THEN entries ELSE (r.key :> r.entry) @@ entries

\* `for row in reader` (line 152) from row i on.
RECURSIVE YonoLoop(_, _, _)
YonoLoop(rows, i, entries) ==
    IF i > Len(rows) THEN entries
    ELSE YonoLoop(rows, i + 1, YonoPut(entries, YonoRow(rows[i])))

\* The parse of the downloaded rows: next(reader) raises StopIteration on a
\* content with no row at all (line 150), nothing in main catches it.
download_yono(rows) ==
    IF Len(rows) = 0 THEN [raised |-> TRUE, entries |-> <<>>]
    ELSE [raised |-> FALSE, entries |-> YonoLoop(rows, 2, <<>>)]

-----------------------------------------------------------------------------
(* read_current (lines 199-257).                                           *)

\* A plausible slip: the test of lines 237-238 is missing.
CurrentFieldsKeepsBlank(area, line, station, company, line_name, name, note) ==
    [skip |-> FALSE, key |-> <<area, line, station>>,
     entry |-> Entry(<<area, line, station>>, company, line_name, name, note)]

\* The end of the loop body (lines 232-250), for a row whose codes parsed.
CurrentFields(area, line, station, company, line_name, station_name, note) ==
    IF station_name = ""
    THEN [skip |-> TRUE, key |-> <<>>, entry |-> <<>>]
    ELSE [skip |-> FALSE, key |-> <<area, line, station>>,
          entry |-> Entry(<<area, line, station>>, company, line_name,
                          station_name, note)]

\* The try block (lines 225-230), on the three parsed codes.
CurrentCodes(row, area, line, station) ==
    IF ~(area.ok /\ line.ok /\ station.ok)
    THEN [skip |-> TRUE, key |-> <<>>, entry |-> <<>>]
    ELSE CurrentFields(area.value, line.value, station.value,
                       Strip(row[4]), Strip(row[5]), Strip(row[6]),
                       IF Len(row) > 6 THEN Strip(row[7]) ELSE "")

\* One row of the loop body (lines 222-250).
CurrentRow(row) ==
    IF Len(row) < 6 THEN [skip |-> TRUE, key |-> <<>>, entry |-> <<>>]
    ELSE CurrentCodes(row, ParseInt(row[1], 10), ParseInt(row[2], 10),
                      ParseInt(row[3], 10))

\* A plausible slip: the entry of a key is replaced, as in download_yono.
CurrentPutReplaces(entries, r) ==
    IF r.skip THEN entries ELSE (r.key :> <<r.entry>>) @@ entries

\* `entries[key].append(entry)` (lines 251-253): every accepted row is
\* appended to the list of its key.
CurrentPut(entries, r) ==
    IF r.skip THEN entries
    ELSE IF r.key \in DOMAIN entries
    THEN [entries EXCEPT ![r.key] = Append(@, r.entry)]
    ELSE (r.key :> <<r.entry>>) @@ entries

\* `for row in reader` (line 221) from row i on.
RECURSIVE CurrentLoop(_, _, _)
CurrentLoop(rows, i, entries) ==
    IF i > Len(rows) THEN entries
    ELSE CurrentLoop(rows, i + 1, CurrentPut(entries, CurrentRow(rows[i])))

\* read_current on the file: open() raises when the file is missing, and
\* next(reader) raises on a file with no row (lines 212, 219).
read_current(file) ==
    IF ~file.exists \/ Len(file.rows) = 0
    THEN [raised |-> TRUE, entries |-> <<>>]
    ELSE [raised |-> FALSE, entries |-> CurrentLoop(file.rows, 2, <<>>)]

-----------------------------------------------------------------------------
(* verify (lines 396-426).                                                 *)

\* checks (lines 398-407): '東京', '東京', '二日市', '天拝山', '天神',
\* '福岡空港', '祇園四条', '神戸三宮'.
checks ==
    << <<<<0, 0, 1>>, "Tokyo">>,
       <<<<0, 1, 1>>, "Tokyo">>,
       <<<<0, 6, 47>>, "Futsukaichi">>,
       <<<<0, 6, 48>>, "Tempaizan">>,
       <<<<3, 231, 15>>, "Tenjin">>,
       <<<<3, 231, 25>>, "FukuokaKuko">>,
       <<<<2, 197, 86>>, "GionShijo">>,
       <<<<2, 157, 34>>, "KobeSannomiya">> >>

\* `for key, expected in checks` (lines 410-421) from check i on.
RECURSIVE VerifyLoop(_, _, _)
VerifyLoop(mv, i, all_ok) ==
    IF i > Len(checks) THEN all_ok
    ELSE LET key == checks[i][1]
             expected == checks[i][2]
         IN  IF key \notin DOMAIN mv THEN VerifyLoop(mv, i + 1, FALSE)
             ELSE IF mv[key].StationName # expected
             THEN VerifyLoop(mv, i + 1, FALSE)
             ELSE VerifyLoop(mv, i + 1, all_ok)

\* A plausible slip: a checked key that is missing is not counted a failure.
VerifyIgnoresMissing(mv) ==
    \A i \in 1..Len(checks) :
        checks[i][1] \in DOMAIN mv => mv[checks[i][1]].StationName = checks[i][2]

\* verify(merged), on the value of the merged dict.
verify(mv) == VerifyLoop(mv, 1, TRUE)

-----------------------------------------------------------------------------
(* write_csv (lines 371-393).                                              *)

\* The row written for an entry (lines 383-391).
EntryRow(entry) ==
    <<IntToText(entry.AreaCode), IntToText(entry.LineCode),
      IntToText(entry.StationCode), entry.CompanyName, entry.LineName,
      entry.StationName, entry.Note>>

\* A plausible slip: the keys are sorted as texts, not as numbers.
SerializeTextOrder(mv) ==
    LET TextLess(a, b) ==
            \E f \in 1..3 :
                /\ \A g \in 1..(f - 1) : a[g] = b[g]
                /\ a[f] # b[f]
                /\ LET x == IntToText(a[f])
                       y == IntToText(b[f])
                       n == IF Len(x) < Len(y) THEN Len(x) ELSE Len(y)
                   IN  \/ \E i \in 1..n :
                             /\ SubSeq(x, 1, i - 1) = SubSeq(y, 1, i - 1)
                             /\ Ord(CharAt(x, i)) < Ord(CharAt(y, i))
                       \/ Len(x) < Len(y) /\ x = SubSeq(y, 1, Len(x))
        RECURSIVE Sorted(_)
        Sorted(S) ==
            IF S = {} THEN <<>>
            ELSE LET m == CHOOSE a \in S : \A b \in S \ {a} : TextLess(a, b)
                 IN  <<m>> \o Sorted(S \ {m})
        sorted_keys == Sorted(DOMAIN mv)
    IN  <<HEADER>> \o [i \in 1..Len(sorted_keys) |-> EntryRow(mv[sorted_keys[i]])]

\* The rows written for merged: the header, then one row per key in sorted
\* order (lines 373-391).
Serialize(mv) ==
    LET sorted_keys == SortedKeys(DOMAIN mv)
    IN  <<HEADER>> \o [i \in 1..Len(sorted_keys) |-> EntryRow(mv[sorted_keys[i]])]

\* The states a write_csv that raised can leave the file in: as it was
\* (makedirs or open failed), or truncated by open(path, "w") and holding
\* the rows written before the failure.
FailedWrites(old, rows) ==
    {old} \cup { File(SubSeq(rows, 1, n)) : n \in 0..(Len(rows) - 1) }

-----------------------------------------------------------------------------
(* Inputs of the resolver: every pair of maps over one or two keys of      *)
(* ModelKeys, with at most MaxDup rows per key of the current map.         *)

MaxDup == 2

\* One key of each kind of the tables: forced current, forced YONO without
\* and with a note, forced YONO with a name override, and no override.
ModelKeys ==
    { <<0, 0, 1>>, <<0, 6, 48>>, <<0, 11, 54>>, <<0, 157, 2>>, <<0, 1, 1>> }

\* Rows of the current CSV for a key: a test row and two real rows.
CurrentEntries(key) ==
    { Entry(key, Shiken, "Shiken-sen", "Dummy", ""),
      Entry(key, "JR", "C-sen", "Kyumei", "memo"),
      Entry(key, "Shitetsu", "D-sen", "Betsumei", "") }

\* Entries of the YONO map for a key; download_yono sets Note to ''.
YonoEntries(key) ==
    { Entry(key, "Y-sha", "Y-sen", "Shinmei+", ""),
      Entry(key, Shiken, "Z-sen", "Shinmei", "") }

Lists(S) == UNION { [1..n -> S] : n \in 1..MaxDup }

KeySets == { {k1, k2} : k1 \in ModelKeys, k2 \in ModelKeys } \cup { {} }

CurrentMaps ==
    UNION { { f \in [D -> UNION { Lists(CurrentEntries(k)) : k \in D }] :
                \A k \in D : \A i \in 1..Len(f[k]) : f[k][i] \in CurrentEntries(k) }
            : D \in KeySets }

YonoMaps ==
    UNION { { f \in [D -> UNION { YonoEntries(k) : k \in D }] :
                \A k \in D : f[k] \in YonoEntries(k) }
            : D \in KeySets }

\* The current map a second run reads from the first run's output: one row
\* per merged entry.
asCurrent(mv) == [k \in DOMAIN mv |-> <<mv[k]>>]

-----------------------------------------------------------------------------
(* The resolver called on its own.                                         *)

Init ==
    /\ pc = "start"
    /\ current \in CurrentMaps
    /\ yono \in YonoMaps
    /\ DOMAIN current \cup DOMAIN yono \in KeySets
    /\ merged = <<>>
    /\ argCurrent = current
    /\ argYono = yono
    /\ preOverride = <<>>
    /\ firstResult = <<>>
    /\ stats = ZeroStats
    /\ warned = {}
    /\ yonoSource = <<>>
    /\ resourcesCsv = NoFile
    /\ docsCsv = NoFile
    /\ startResources = NoFile
    /\ startDocs = NoFile
    /\ verifyResult = <<>>
    /\ exitStatus = <<>>
    /\ fetchResult = <<>>

\* The state when a merge() call has returned r.
Returned(r) ==
    /\ current' = r.current
    /\ yono' = r.yono
    /\ merged' = r.merged
    /\ stats' = r.stats
    /\ warned' = r.warned
    /\ preOverride' = r.preOverride

\* merged = merge(current, yono)
CallMerge ==
    /\ pc = "start"
    /\ Returned(merge(current, yono))
    /\ firstResult' = ValueOf(current', yono', merged')
    /\ pc' = "merged"
    /\ UNCHANGED <<argCurrent, argYono, files>>

\* A second merge(current, yono) on the same in-memory maps.
CallMergeAgain ==
    /\ pc = "merged"
    /\ Returned(merge(current, yono))
    /\ pc' = "merged_again"
    /\ UNCHANGED <<argCurrent, argYono, firstResult, files>>

\* A second run: the current map is read back from the first run's output,
\* the YONO map is loaded again, and merge is called on them.
Rerun ==
    /\ pc = "merged"
    /\ Returned(merge(asCurrent(ValueOf(current, yono, merged)), argYono))
    /\ pc' = "rerun"
    /\ UNCHANGED <<argCurrent, argYono, firstResult, files>>

Next == CallMerge \/ CallMergeAgain \/ Rerun

Spec == Init /\ [][Next]_vars

\* The value of the dict the last merge() returned.
MergedValue == ValueOf(current, yono, merged)

-----------------------------------------------------------------------------
(* Properties of the resolver.                                             *)

\* C1: the keys of the map merge returns are exactly the keys of the current
\* map together with the keys of the YONO map.
C1_KeyConservation ==
    pc = "merged" => DOMAIN merged = DOMAIN argCurrent \cup DOMAIN argYono

\* A forced-YONO key that only the current map has, beside a forced-current
\* key that only the YONO map has, both in the merged map.
C1_Witness ==
    /\ pc = "merged"
    /\ \E k \in DOMAIN merged :
          k \in DOMAIN USE_YONO /\ k \notin DOMAIN argYono
    /\ \E k \in DOMAIN merged :
          k \in USE_CURRENT /\ k \notin DOMAIN argCurrent

\* C4: a second merge on the same in-memory maps returns a map equal, key by
\* key and field by field, to the one the first call returned.
C4_SecondCallEqual ==
    pc = "merged_again" => MergedValue = firstResult

\* The second call ran on maps the first call had changed.
C4_Witness ==
    /\ pc = "merged_again"
    /\ current # argCurrent
    /\ DOMAIN merged # {}

\* C5: after merge returns, every entry of the two input maps has the field
\* values it had before the call.
C5_InputsUnchanged ==
    pc = "merged" => current = argCurrent /\ yono = argYono

\* C6: merging the first run's output, read back as the current map, with the
\* same YONO map gives the first run's output again.
C6_RerunFixedPoint ==
    pc = "rerun" => MergedValue = firstResult

\* A rerun over a forced-YONO key with a note that both maps hold, whose
\* current row had another name and a note of its own.
C6_Witness ==
    /\ pc = "rerun"
    /\ \E k \in DOMAIN argCurrent \cap DOMAIN argYono :
          /\ k \in DOMAIN USE_YONO
          /\ Truthy(USE_YONO[k])
          /\ argCurrent[k][1].Note # ""
          /\ argCurrent[k][1].StationName # argYono[k].StationName

\* C7: for a forced-current key the current map has, CompanyName, LineName and
\* Note (and StationName, unless the key has a name override) of the merged
\* entry are those of pick_best_current(current[key]).
C7_ForcedCurrent ==
    pc = "merged" =>
        \A k \in USE_CURRENT \cap DOMAIN argCurrent :
            LET best == pick_best_current(argCurrent[k])
                m == MergedValue[k]
            IN  /\ k \in DOMAIN merged
                /\ m.CompanyName = best.CompanyName
                /\ m.LineName = best.LineName
                /\ m.Note = best.Note
                /\ k \notin DOMAIN STATION_NAME_OVERRIDES
                      => m.StationName = best.StationName

\* A forced-current key in both maps whose current rows are all test rows.
C7_Witness ==
    /\ pc = "merged"
    /\ \E k \in USE_CURRENT \cap DOMAIN argCurrent \cap DOMAIN argYono :
          /\ Len(argCurrent[k]) > 1
          /\ \A i \in 1..Len(argCurrent[k]) : argCurrent[k][i].CompanyName = Shiken
          /\ MergedValue[k].CompanyName = Shiken

\* C8: for a forced-YONO key the YONO map has, the StationName before the
\* override pass is the YONO one; CompanyName and LineName are those of
\* pick_best_current(current[key]) if the current map has the key and the YONO
\* ones otherwise; Note is the configured note if there is one, and otherwise
\* the Note of the entry that was copied.
C8_ForcedYono ==
    pc = "merged" =>
        \A k \in (DOMAIN USE_YONO \ USE_CURRENT) \cap DOMAIN argYono :
            LET base == IF k \in DOMAIN argCurrent
                        THEN pick_best_current(argCurrent[k])
                        ELSE argYono[k]
                m == MergedValue[k]
            IN  /\ k \in DOMAIN merged
                /\ preOverride[k].StationName = argYono[k].StationName
                /\ m.CompanyName = base.CompanyName
                /\ m.LineName = base.LineName
                /\ m.Note = IF USE_YONO[k] \notin {None, ""}
                            THEN USE_YONO[k] ELSE base.Note

\* A forced-YONO key with a note in both maps, whose current row differs from
\* the YONO entry in CompanyName and has a note of its own.
C8_Witness ==
    /\ pc = "merged"
    /\ \E k \in DOMAIN argCurrent \cap DOMAIN argYono :
          /\ k \in DOMAIN USE_YONO
          /\ USE_YONO[k] # None
          /\ pick_best_current(argCurrent[k]).CompanyName # argYono[k].CompanyName
          /\ pick_best_current(argCurrent[k]).Note # ""
          /\ MergedValue[k].Note = USE_YONO[k]

\* C9: for a key in both maps and in no override table, the merged entry is
\* the YONO entry if every current row of the key is a test row, and is the
\* first current row that is not a test row otherwise.
C9_SentinelSuppression ==
    pc = "merged" =>
        \A k \in (DOMAIN argCurrent \cap DOMAIN argYono)
                    \ (USE_CURRENT \cup DOMAIN USE_YONO) :
            LET rows == argCurrent[k]
                allTest == \A i \in 1..Len(rows) : rows[i].CompanyName = Shiken
            IN  /\ k \in DOMAIN merged
                /\ allTest <=> pick_best_current(rows).CompanyName = Shiken
                /\ IF allTest
                   THEN MergedValue[k] = argYono[k]
                   ELSE /\ MergedValue[k] = pick_best_current(rows)
                        /\ MergedValue[k].CompanyName # Shiken
                        /\ \E i \in 1..Len(rows) :
                              /\ MergedValue[k] = rows[i]
                              /\ \A j \in 1..(i - 1) : rows[j].CompanyName = Shiken

\* A key in both maps and in no table, with a test row before a real row.
C9_Witness ==
    /\ pc = "merged"
    /\ \E k \in (DOMAIN argCurrent \cap DOMAIN argYono)
                    \ (USE_CURRENT \cup DOMAIN USE_YONO) :
          /\ Len(argCurrent[k]) = 2
          /\ argCurrent[k][1].CompanyName = Shiken
          /\ argCurrent[k][2].CompanyName # Shiken
          /\ MergedValue[k] = argCurrent[k][2]

\* C10: every key of STATION_NAME_OVERRIDES that the merged map has carries
\* the StationName of the table.
C10_OverrideFinalSay ==
    pc # "start" =>
        \A k \in DOMAIN STATION_NAME_OVERRIDES \cap DOMAIN merged :
            MergedValue[k].StationName = STATION_NAME_OVERRIDES[k]

\* An override key whose entry came from the current map alone, with a name
\* that the pass replaced.
C10_Witness ==
    /\ pc = "merged"
    /\ \E k \in DOMAIN STATION_NAME_OVERRIDES \cap DOMAIN merged :
          /\ k \notin DOMAIN argYono
          /\ preOverride[k].StationName # STATION_NAME_OVERRIDES[k]
          /\ MergedValue[k].StationName = STATION_NAME_OVERRIDES[k]

-----------------------------------------------------------------------------
(* The sources main() reads: a snapshot on which the checks of verify pass,*)
(* less at most one row, plus at most MaxExtraRows rows of a pool of rows  *)
(* that exercise the loaders and the resolver.                             *)

MaxExtraRows == 1

\* The header of the YONO CSV (six columns, line 129).
YonoHeader ==
    <<"AreaCode(hex)", "LineCode(hex)", "StationCode(hex)", "CompanyName",
      "LineName", "StationName">>

\* Rows of the YONO CSV, codes in hexadecimal.
YonoBaseRows ==
    << <<"0", "6", "30", "JR-Kyushu", "Kagoshima", "Tempaizan">>,
       <<"2", "9d", "22", "Hanshin", "Honsen", "KobeSannomiya">>,
       <<"0", "9d", "2", "Tobu", "Isesaki", "TokyoSkytree+">>,
       <<"3", "ff", "ff", "NihonDenkiTetsudo", "Nihon", "Nihon">>,
       <<"2", "c5", "56", "Keihan", "Keihan-honsen", "Shijo">> >>

YonoExtraRows ==
    { <<"0", "1", "1", "JR-Higashi", "Chuo">>,
      <<"0", "zz", "1", "JR-Higashi", "Chuo", "Kanda">>,
      <<"0", "6", "30", "JR-Kyushu", "Kagoshima", "Futsukaichi">>,
      <<"1", "81", "34", "Nagoya-shi", "Higashiyama", "Honji~">>,
      <<" 0", "1", "2 ", "JR-Higashi", "Chuo", "  ">> }

\* Rows of the current CSV, codes in decimal.
CurrentBaseRows ==
    << <<"0", "0", "1", "JR-Higashi", "Tokaido", "Tokyo", "">>,
       <<"0", "1", "1", "JR-Higashi", "Chuo", "Tokyo", "">>,
       <<"0", "6", "47", "JR-Kyushu", "Kagoshima", "Futsukaichi", "">>,
       <<"0", "6", "48", "JR-Kyushu", "Kagoshima", "Futsukaichi", "">>,
       <<"3", "231", "15", "Fukuoka-shi", "Kuko", "Tenjin", "">>,
       <<"3", "231", "25", "Fukuoka-shi", "Kuko", "FukuokaKuko", "">>,
       <<"2", "197", "86", "Keihan", "Keihan-honsen", "GionShijo", "">>,
       <<"2", "157", "34", "Hanshin", "Honsen", "Sannomiya", "">> >>

CurrentExtraRows ==
    { <<"0", "1", "1", "Shiken", "Shiken-sen", "Dummy", "">>,
      <<"0", "157", "2", "Tobu", "Isesaki", "Narihirabashi">>,
      <<"x", "1", "1", "JR-Higashi", "Chuo", "Kanda", "">>,
      <<" 0", "11 ", "54", "JR-Nishi", "San-in", " Kinosaki ", " kyu ">>,
      <<"3", "255", "255", "Dummy-sha", "Dummy-sen", "Dummy", "">>,
      <<"0", "1", "3", "JR-Higashi", "Chuo", " \t", "">> }

\* seq without its element at position i (i = 0: seq itself).
Without(seq, i) ==
    [j \in 1..(Len(seq) - (IF i = 0 THEN 0 ELSE 1)) |->
        IF i = 0 \/ j < i THEN seq[j] ELSE seq[j + 1]]

ExtraSeqs(pool) == UNION { [1..n -> pool] : n \in 0..MaxExtraRows }

\* The YONO CSV: the header, the base rows without row 1 (Tempaizan) or
\* row 3 (TokyoSkytree+) or complete, then the extra rows; or empty.
YonoSources ==
    { <<YonoHeader>> \o Without(YonoBaseRows, i) \o extra :
        i \in {0, 1, 3}, extra \in ExtraSeqs(YonoExtraRows) } \cup { <<>> }

\* The current CSV: the same with row 4 (key (0, 6, 48)) left out or
\* complete; or a file that is missing.
CurrentFiles ==
    { File(<<HEADER>> \o Without(CurrentBaseRows, i) \o extra) :
        i \in {0, 4}, extra \in ExtraSeqs(CurrentExtraRows) } \cup { NoFile }

\* DOCS_CSV before the run: an older output.
DocsFiles == { File(<<HEADER>> \o CurrentBaseRows) }

-----------------------------------------------------------------------------
(* main() (lines 429-450), one action per step.                            *)

InitMain ==
    /\ pc = "step1"
    /\ yonoSource \in YonoSources
    /\ resourcesCsv \in CurrentFiles
    /\ docsCsv \in DocsFiles
    /\ startResources = resourcesCsv
    /\ startDocs = docsCsv
    /\ current = <<>>
    /\ yono = <<>>
    /\ merged = <<>>
    /\ argCurrent = <<>>
    /\ argYono = <<>>
    /\ preOverride = <<>>
    /\ firstResult = <<>>
    /\ stats = ZeroStats
    /\ warned = {}
    /\ verifyResult = <<>>
    /\ exitStatus = <<>>
    /\ fetchResult = <<>>

\* The process ends with an exit status: sys.exit(1), or an exception that
\* nothing catches (status 1), or the end of main (status 0).
Exit(status) ==
    /\ pc' = "exited"
    /\ exitStatus' = <<status>>

\* What main does with the outcome r of a loader: the exception ends the
\* process, the entries are kept and main goes on to the next step.
Loaded(r, next) ==
    IF r.raised THEN Exit(1) ELSE pc' = next /\ UNCHANGED exitStatus

\* Step 1 (lines 432-433, 134-196): the download fails and download_yono
\* calls sys.exit(1), or it succeeds and the rows are parsed.
Step1Parsed(r) ==
    /\ fetchResult' = <<TRUE>>
    /\ Loaded(r, "step2")
    /\ yono' = r.entries

\* A plausible slip: the error is reported, and the run goes on with an
\* empty YONO map.
FetchFailedGoesOn ==
    /\ fetchResult' = <<FALSE>>
    /\ pc' = "step2"
    /\ UNCHANGED <<yono, exitStatus>>

\* urlopen or read raised, or timed out (lines 139-141): sys.exit(1).
FetchFailed ==
    /\ fetchResult' = <<FALSE>>
    /\ Exit(1)
    /\ UNCHANGED yono

Step1Download ==
    /\ pc = "step1"
    /\ \/ FetchFailed
       \/ Step1Parsed(download_yono(yonoSource))
    /\ UNCHANGED <<current, merged, argCurrent, argYono, preOverride,
                   firstResult, stats, warned, yonoSource, resourcesCsv, docsCsv,
                   startResources, startDocs, verifyResult>>

\* A plausible slip: main goes from read_current to verify, without merge.
Step2ParsedSkipsMerge(r) ==
    /\ Loaded(r, "step4")
    /\ current' = r.entries

\* Step 2 (lines 435-436, 199-257).
Step2Parsed(r) ==
    /\ Loaded(r, "step3")
    /\ current' = r.entries

Step2ReadCurrent ==
    /\ pc = "step2"
    /\ Step2Parsed(read_current(resourcesCsv))
    /\ UNCHANGED <<yono, merged, argCurrent, argYono, preOverride,
                   firstResult, stats, warned, yonoSource, resourcesCsv, docsCsv,
                   startResources, startDocs, verifyResult, fetchResult>>

\* Step 3 (lines 438-439).
Step3Merge ==
    /\ pc = "step3"
    /\ Returned(merge(current, yono))
    /\ firstResult' = ValueOf(current', yono', merged')
    /\ argCurrent' = current
    /\ argYono' = yono
    /\ pc' = "step4"
    /\ UNCHANGED files

\* A plausible slip: the error is reported but the process goes on.
AfterVerifyNoExit(ok) == "step5a"

\* Where main goes after verify returned ok (lines 442-446).
AfterVerify(ok) == IF ok THEN "step5a" ELSE "exited"

\* Step 4 (lines 441-444).
Step4Verified(ok, next) ==
    /\ verifyResult' = <<ok>>
    /\ pc' = next
    /\ exitStatus' = IF next = "exited" THEN <<1>> ELSE exitStatus

Step4Verify ==
    /\ pc = "step4"
    /\ Step4Verified(verify(MergedValue), AfterVerify(verify(MergedValue)))
    /\ UNCHANGED <<current, yono, merged, argCurrent, argYono, preOverride,
                   firstResult, stats, warned, yonoSource, resourcesCsv, docsCsv,
                   startResources, startDocs, fetchResult>>

\* Step 5, first file (line 447): write_csv(merged, RESOURCES_CSV) returns,
\* or raises OSError and the process ends.
Step5WriteResources ==
    /\ pc = "step5a"
    /\ \/ /\ resourcesCsv' = File(Serialize(MergedValue))
          /\ pc' = "step5b"
          /\ UNCHANGED exitStatus
       \/ /\ resourcesCsv' \in FailedWrites(resourcesCsv, Serialize(MergedValue))
          /\ Exit(1)
    /\ UNCHANGED <<current, yono, merged, argCurrent, argYono, preOverride,
                   firstResult, stats, warned, yonoSource, docsCsv,
                   startResources, startDocs, verifyResult, fetchResult>>

\* Step 5, second file (lines 448-450): write_csv(merged, DOCS_CSV), then
\* main returns.
Step5WriteDocs ==
    /\ pc = "step5b"
    /\ \/ /\ docsCsv' = File(Serialize(MergedValue))
          /\ Exit(0)
       \/ /\ docsCsv' \in FailedWrites(docsCsv, Serialize(MergedValue))
          /\ Exit(1)
    /\ UNCHANGED <<current, yono, merged, argCurrent, argYono, preOverride,
                   firstResult, stats, warned, yonoSource, resourcesCsv,
                   startResources, startDocs, verifyResult, fetchResult>>

NextMain ==
    \/ Step1Download
    \/ Step2ReadCurrent
    \/ Step3Merge
    \/ Step4Verify
    \/ Step5WriteResources
    \/ Step5WriteDocs

SpecMain == InitMain /\ [][NextMain]_vars

-----------------------------------------------------------------------------
(* Properties of main().                                                   *)

\* C2: a file is written only after verify has returned true for the merged
\* map; when verify returns false no file is written and the process ends
\* with exit status 1.
C2_VerificationGating ==
    /\ pc \in {"step5a", "step5b"}
          => verifyResult = <<TRUE>> /\ verify(MergedValue)
    /\ resourcesCsv # startResources \/ docsCsv # startDocs
          => verifyResult = <<TRUE>> /\ verify(MergedValue)
    /\ verifyResult = <<FALSE>>
          => /\ pc = "exited"
             /\ exitStatus = <<1>>
             /\ resourcesCsv = startResources
             /\ docsCsv = startDocs

\* A run whose merged map failed a check of verify and that has ended.
C2_Witness ==
    /\ pc = "exited"
    /\ verifyResult = <<FALSE>>
    /\ DOMAIN merged # {}
    /\ docsCsv.exists

\* C3: a run that has ended left both files holding the serialization of the
\* verified merged map, or left both files as they were and ended with exit
\* status 1.
C3_AllOrNothing ==
    pc = "exited" =>
        \/ /\ verifyResult = <<TRUE>>
           /\ resourcesCsv = File(Serialize(MergedValue))
           /\ docsCsv = File(Serialize(MergedValue))
        \/ /\ resourcesCsv = startResources
           /\ docsCsv = startDocs
           /\ exitStatus = <<1>>

\* The key a row of the YONO CSV is written for, <<>> when the row is short
\* or a code is not a hexadecimal number.
YonoRowKey(row) ==
    IF Len(row) < 6 THEN <<>>
    ELSE IF ~(ParseInt(row[1], 16).ok /\ ParseInt(row[2], 16).ok
              /\ ParseInt(row[3], 16).ok)
    THEN <<>>
    ELSE <<ParseInt(row[1], 16).value, ParseInt(row[2], 16).value,
           ParseInt(row[3], 16).value>>

\* C11: a key of EXCLUDE_YONO is never a key of the map download_yono
\* returns, whatever the rows of the source; so the merged map has such a key
\* only if the current map has it, and the merged entry is then the entry
\* pick_best_current chose among the current rows.
C11_ReferenceExclusion ==
    /\ \A k \in EXCLUDE_YONO : k \notin DOMAIN yono
    /\ \A k \in EXCLUDE_YONO \cap DOMAIN merged :
          /\ k \in DOMAIN argCurrent
          /\ merged[k].kind = "current"
          /\ MergedValue[k] = pick_best_current(argCurrent[k])

\* A run merged a YONO source holding a well-formed row of an excluded key
\* with a current file holding a row of the same key.
C11_Witness ==
    /\ pc = "step4"
    /\ \E i \in 2..Len(yonoSource) :
          /\ YonoRowKey(yonoSource[i]) \in EXCLUDE_YONO
          /\ Strip(yonoSource[i][6]) # ""
          /\ YonoRowKey(yonoSource[i]) \in DOMAIN merged

-----------------------------------------------------------------------------
(* Properties of verify and write_csv, on the runs of main().              *)

\* The checks of verify that a merged map fails: the key is missing, or its
\* StationName is not the expected one.
FailedChecks(mv) ==
    { i \in 1..Len(checks) :
        \/ checks[i][1] \notin DOMAIN mv
        \/ /\ checks[i][1] \in DOMAIN mv
           /\ mv[checks[i][1]].StationName # checks[i][2] }

\* C13: verify(merged) returns false exactly when some key of the check list
\* is missing from merged or has a StationName other than the expected one,
\* and true exactly when every checked key is there with its expected name;
\* merged is the same map after verify as before it.
C13_VerifierResult ==
    /\ verify(MergedValue) <=> FailedChecks(MergedValue) = {}
    /\ verifyResult # <<>> =>
          /\ verifyResult = <<FailedChecks(MergedValue) = {}>>
          /\ MergedValue = firstResult

\* verify returned false on a merged map that lacks one checked key and has
\* every other checked key with its expected name.
C13_Witness ==
    /\ verifyResult = <<FALSE>>
    /\ \E i \in 1..Len(checks) :
          /\ checks[i][1] \notin DOMAIN merged
          /\ FailedChecks(MergedValue) = {i}

\* The key written in a data row of an output file, read back as numbers.
RowKey(row) ==
    <<ParseInt(row[1], 10).value, ParseInt(row[2], 10).value,
      ParseInt(row[3], 10).value>>

\* The rows of a written file: the header, then one row per key of the
\* merged map, the keys written in strictly ascending order.
WellOrdered(rows) ==
    /\ Len(rows) = 1 + Cardinality(DOMAIN merged)
    /\ rows[1] = HEADER
    /\ { RowKey(rows[i]) : i \in 2..Len(rows) } = DOMAIN merged
    /\ \A i \in 2..Len(rows) : \A f \in 1..3 : ParseInt(rows[i][f], 10).ok
    /\ \A i \in 2..(Len(rows) - 1) : KeyLess(RowKey(rows[i]), RowKey(rows[i + 1]))

\* C14: a file write_csv has written holds one data row per merged entry, and
\* the (AreaCode, LineCode, StationCode) triples of the rows are strictly
\* ascending, so no key is in two rows; the three code fields of every
\* merged entry are the key it is stored under.
C14_SerializedOrder ==
    /\ \A k \in DOMAIN merged :
          <<MergedValue[k].AreaCode, MergedValue[k].LineCode,
            MergedValue[k].StationCode>> = k
    /\ pc = "step5b" => WellOrdered(resourcesCsv.rows)
    /\ exitStatus = <<0>> =>
          WellOrdered(resourcesCsv.rows) /\ WellOrdered(docsCsv.rows)

\* Both files written, with keys whose order as numbers is not their order
\* as text: (0, 6, 48) before (0, 157, 2), and (2, 157, 34) before (2, 197, 86).
C14_Witness ==
    /\ exitStatus = <<0>>
    /\ Len(docsCsv.rows) > 8
    /\ {<<0, 6, 48>>, <<0, 157, 2>>} \subseteq DOMAIN merged
    /\ docsCsv = resourcesCsv

\* C15: when the download fails or times out, the process ends with a
\* non-zero exit status; read_current, merge and verify have not run and
\* neither file has been written.
C15_TransportFailure ==
    fetchResult = <<FALSE>> =>
        /\ pc = "exited"
        /\ exitStatus # <<>>
        /\ exitStatus # <<0>>
        /\ current = <<>>
        /\ yono = <<>>
        /\ merged = <<>>
        /\ verifyResult = <<>>
        /\ resourcesCsv = startResources
        /\ docsCsv = startDocs

\* The download failed in a run whose current file was there to be read and
\* whose YONO source, had it been fetched, held rows to load.
C15_Witness ==
    /\ fetchResult = <<FALSE>>
    /\ pc = "exited"
    /\ resourcesCsv.exists
    /\ Len(resourcesCsv.rows) > 1
    /\ Len(yonoSource) > 1

\* The order of the steps of main: from each position, the positions a step
\* may lead to.
StepOrder ==
    { <<"step1", "step2">>, <<"step2", "step3">>, <<"step3", "step4">>,
      <<"step4", "step5a">>, <<"step5a", "step5b">> }
    \cup { <<p, "exited">> :
             p \in {"step1", "step2", "step3", "step4", "step5a", "step5b"} }

\* What has not happened yet at each position of main.
NotYetDone ==
    /\ pc = "step1" => fetchResult = <<>> /\ yono = <<>>
    /\ pc \in {"step1", "step2"} => current = <<>>
    /\ pc \in {"step1", "step2", "step3"} => merged = <<>> /\ firstResult = <<>>
    /\ pc \in {"step1", "step2", "step3", "step4"} => verifyResult = <<>>
    /\ pc \in {"step1", "step2", "step3", "step4", "step5a"}
          => resourcesCsv = startResources
    /\ pc \in {"step1", "step2", "step3", "step4", "step5a", "step5b"}
          => docsCsv = startDocs /\ exitStatus = <<>>

\* What the step that leads to a position has completed.
StepCompleted ==
    /\ pc' = "step2" =>
          fetchResult' = <<TRUE>> /\ yono' = download_yono(yonoSource).entries
    /\ pc' = "step3" => current' = read_current(resourcesCsv).entries
    /\ pc' = "step4" => merged' = merge(current, yono).merged
    /\ pc' = "step5a" => verifyResult' = <<TRUE>>
    /\ pc' = "step5b" => resourcesCsv' = File(Serialize(MergedValue))
    /\ exitStatus' = <<0>> => docsCsv' = File(Serialize(MergedValue))

\* C23: in every run the steps come in the order download_yono, read_current,
\* merge (with its override pass), verify, write_csv of the first file,
\* write_csv of the second; a step starts only when the one before it has
\* returned normally, and no step runs twice.
C23_PipelineOrdering ==
    /\ []NotYetDone
    /\ [][StepCompleted /\ (<<pc, pc'>> \in StepOrder)]_vars

\* A run that went through all six steps and ended with status 0.
C23_Witness ==
    /\ pc = "exited"
    /\ exitStatus = <<0>>
    /\ fetchResult = <<TRUE>>
    /\ verifyResult = <<TRUE>>
    /\ resourcesCsv # startResources
    /\ docsCsv = resourcesCsv

\* C26: every entry a loader returns has a StationName that is not empty (a
\* row whose name is empty once stripped is skipped), and so has every entry
\* of the merged map after the override pass, whose names are not empty
\* either.
C26_NonEmptyNames ==
    /\ \A k \in DOMAIN yono : yono[k].StationName # ""
    /\ \A k \in DOMAIN current :
          \A i \in 1..Len(current[k]) : current[k][i].StationName # ""
    /\ \A k \in DOMAIN merged : MergedValue[k].StationName # ""
    /\ \A k \in DOMAIN STATION_NAME_OVERRIDES : STATION_NAME_OVERRIDES[k] # ""

\* A run merged the maps loaded from a current file with a well-formed row
\* whose name is blank: the key of the row is not in the merged map.
C26_Witness ==
    /\ pc = "step4"
    /\ DOMAIN merged # {}
    /\ \E i \in 2..Len(resourcesCsv.rows) :
          LET row == resourcesCsv.rows[i]
          IN  /\ Len(row) >= 6
              /\ \A f \in 1..3 : ParseInt(row[f], 10).ok
              /\ row[6] # ""
              /\ Strip(row[6]) = ""
              /\ RowKey(row) \notin DOMAIN merged

-----------------------------------------------------------------------------
(* Properties of pick_best_current, of the fallback of Case 2 and of the   *)
(* statistics, on the resolver called on its own.                          *)

\* The positions of the rows of a list that are not test rows.
RealRows(rows) == { i \in 1..Len(rows) : rows[i].CompanyName # Shiken }

\* C16: pick_best_current returns the first row of the list, in list order,
\* whose CompanyName is not the test marker, and the first row if every row
\* is a test row; what it returns is a row of the list, and the list holds
\* the same rows in the same order afterwards (but for the StationName the
\* override pass writes).
C16_PickBest ==
    pc = "merged" =>
        \A k \in DOMAIN argCurrent :
            LET rows == argCurrent[k]
                best == pick_best_current(rows)
                first == IF RealRows(rows) = {} THEN 1
                         ELSE CHOOSE i \in RealRows(rows) :
                                 \A j \in RealRows(rows) : i <= j
            IN  /\ \E i \in 1..Len(rows) : best = rows[i]
                /\ best = rows[first]
                /\ PickBestIndex(rows) = first
                /\ RealRows(rows) # {} => best.CompanyName # Shiken
                /\ merged[k].kind = "current" => merged[k].idx = first
                /\ Len(current[k]) = Len(rows)
                /\ \A i \in 1..Len(rows) :
                      [current[k][i] EXCEPT !.StationName = rows[i].StationName]
                          = rows[i]

\* A key of the current map alone with two real rows that differ, and one
\* with a test row before a real row: the merged entry is the first real row.
C16_Witness ==
    /\ pc = "merged"
    /\ \E k \in DOMAIN argCurrent \ DOMAIN argYono :
          /\ Len(argCurrent[k]) = 2
          /\ RealRows(argCurrent[k]) = {1, 2}
          /\ argCurrent[k][1] # argCurrent[k][2]
          /\ merged[k] = CurrentRef(1)
    /\ \E k \in DOMAIN argCurrent \ DOMAIN argYono :
          /\ RealRows(argCurrent[k]) = {2}
          /\ merged[k] = CurrentRef(2)

RECURSIVE ExtraRows(_, _)
ExtraRows(cur, keys) ==
    IF keys = {} THEN 0
    ELSE LET k == CHOOSE x \in keys : TRUE
         IN  (Len(cur[k]) - 1) + ExtraRows(cur, keys \ {k})

\* C20: when merge returns, duplicates_removed is the sum of
\* len(current[k]) - 1 over the keys of the current map, for each of which
\* the resolver picks one row with pick_best_current, whatever the case.
C20_DuplicatesRemoved ==
    pc = "merged" =>
        stats.duplicates_removed = ExtraRows(argCurrent, DOMAIN argCurrent)

-----------------------------------------------------------------------------
(* More properties of the resolver called on its own.                      *)

\* The keys of the union that fall to each case, by the priority order of
\* the loop body.
KeysOfCase ==
    LET all == DOMAIN argCurrent \cup DOMAIN argYono
        rest == all \ (USE_CURRENT \cup DOMAIN USE_YONO)
    IN  [case1 |-> all \cap USE_CURRENT,
         case2 |-> (all \cap DOMAIN USE_YONO) \ USE_CURRENT,
         case3 |-> rest \cap DOMAIN argCurrent \cap DOMAIN argYono,
         case4 |-> (rest \cap DOMAIN argCurrent) \ DOMAIN argYono,
         case5 |-> (rest \cap DOMAIN argYono) \ DOMAIN argCurrent]

\* C22: merge applies to every key of the union exactly one of the five
\* cases, the first in the order forced current, forced YONO, in both maps,
\* in the current map only, in the YONO map only; so each case counter is
\* the number of keys of its case (yono_only_added counts Case 5 and the
\* all-test-rows branch of Case 3) and the five counters add up to the
\* number of keys of the union.
C22_OneCasePerKey ==
    pc = "merged" =>
        LET c == KeysOfCase
            allTest == { k \in c.case3 :
                           pick_best_current(argCurrent[k]).CompanyName = Shiken }
        IN  /\ stats.conflict_use_current = Cardinality(c.case1)
            /\ stats.conflict_use_yono = Cardinality(c.case2)
            /\ stats.both_same = Cardinality(c.case3 \ allTest)
            /\ stats.current_only = Cardinality(c.case4)
            /\ stats.yono_only_added = Cardinality(c.case5 \cup allTest)
            /\ stats.conflict_use_current + stats.conflict_use_yono
                 + stats.both_same + stats.current_only + stats.yono_only_added
                 = Cardinality(DOMAIN argCurrent \cup DOMAIN argYono)

\* A forced-YONO key in both maps beside a key of no table in both maps.
C22_Witness ==
    /\ pc = "merged"
    /\ KeysOfCase.case2 \cap DOMAIN argCurrent \cap DOMAIN argYono # {}
    /\ KeysOfCase.case3 # {}
    /\ stats.conflict_use_yono = 1
    /\ stats.both_same + stats.yono_only_added = 1

\* Whether two entries are equal but, for a key of STATION_NAME_OVERRIDES,
\* for the StationName.
SameUpToOverride(k, a, b) ==
    IF k \in DOMAIN STATION_NAME_OVERRIDES
    THEN [a EXCEPT !.StationName = b.StationName] = b
    ELSE a = b

\* C24: for a forced-current key that the current map lacks and the YONO map
\* has, the merged map has the key and its entry is the YONO entry, field by
\* field (but for a StationName the override pass replaces).
C24_ForcedCurrentFallback ==
    pc = "merged" =>
        \A k \in (USE_CURRENT \cap DOMAIN argYono) \ DOMAIN argCurrent :
            /\ k \in DOMAIN merged
            /\ merged[k] = YonoRef
            /\ preOverride[k] = argYono[k]
            /\ SameUpToOverride(k, MergedValue[k], argYono[k])

\* A forced-current key of the YONO map alone was merged, beside another key.
C24_Witness ==
    /\ pc = "merged"
    /\ \E k \in (USE_CURRENT \cap DOMAIN argYono) \ DOMAIN argCurrent :
          /\ MergedValue[k] = argYono[k]
          /\ stats.conflict_use_current = 1
          /\ Cardinality(DOMAIN merged) = 2

\* C27: for a key of neither table, in the current map alone the merged
\* entry is pick_best_current(current[key]), and in the YONO map alone it is
\* the YONO entry, whose Note is empty (in both cases but for a StationName
\* the override pass replaces).
C27_SingleSourcePassThrough ==
    pc = "merged" =>
        /\ \A k \in KeysOfCase.case4 :
              /\ k \in DOMAIN merged
              /\ SameUpToOverride(k, MergedValue[k],
                                  pick_best_current(argCurrent[k]))
        /\ \A k \in KeysOfCase.case5 :
              /\ k \in DOMAIN merged
              /\ SameUpToOverride(k, MergedValue[k], argYono[k])
              /\ MergedValue[k].Note = ""

\* A key of neither table in the current map alone, with a test row before a
\* real row that has a note, was merged beside a key of another case.
C27_Witness ==
    /\ pc = "merged"
    /\ Cardinality(DOMAIN merged) = 2
    /\ \E k \in KeysOfCase.case4 :
          /\ Len(argCurrent[k]) = 2
          /\ argCurrent[k][1].CompanyName = Shiken
          /\ argCurrent[k][2].Note # ""
          /\ MergedValue[k] = argCurrent[k][2]
    /\ stats.current_only = 1

\* C28: the override pass changes nothing but the StationName of the merged
\* entries whose key is in STATION_NAME_OVERRIDES: their other fields are as
\* before the pass, every other entry is as before the pass, and the merged
\* map has the same keys after the pass as before it.
C28_OverrideFrame ==
    pc # "start" =>
        /\ DOMAIN merged = DOMAIN preOverride
        /\ \A k \in DOMAIN STATION_NAME_OVERRIDES :
              k \in DOMAIN merged
                 <=> k \in DOMAIN current \cup DOMAIN yono
        /\ \A k \in DOMAIN merged :
              IF k \in DOMAIN STATION_NAME_OVERRIDES
              THEN [MergedValue[k] EXCEPT
                       !.StationName = preOverride[k].StationName]
                      = preOverride[k]
              ELSE MergedValue[k] = preOverride[k]

\* The pass replaced the name of an entry that has a CompanyName and a Note,
\* beside an entry of another key.
C28_Witness ==
    /\ pc = "merged"
    /\ Cardinality(DOMAIN merged) = 2
    /\ \E k \in DOMAIN STATION_NAME_OVERRIDES \cap DOMAIN merged :
          /\ MergedValue[k].StationName # preOverride[k].StationName
          /\ MergedValue[k].Note # ""
          /\ MergedValue[k].CompanyName # ""

-----------------------------------------------------------------------------
(* download_yono on its own: the sources are the header followed by at     *)
(* most MaxYonoRows rows of a pool, in every order and with repetition.    *)

MaxYonoRows == 2

\* Rows of a YONO CSV: two keys, written in several ways; names with a
\* character at each end of the range of is_garbled and just outside it;
\* rows the loop skips.
YonoPool ==
    { <<"0", "1", "1", "JR-Higashi", "Chuo", "Kanda">>,
      <<"0", "01", "0x1", "JR-Higashi", "Chuo", " Ochanomizu ">>,
      <<"0", "1", "2", "JR-Higashi", "Chuo", "Yotsuya">>,
      <<"0", "1", "1", "JR-Higashi", "Chuo", "Kanda~">>,
      <<"0", "1", "2", "JR{", "Chuo", "Yotsuya">>,
      <<"0", "1", "2", "JR-Higashi", "Chuo|", "Yotsuya">>,
      <<"0", "1", "2", "JR^", "Chuo}", "Ichigaya">>,
      <<"0", "1", "2", "JR-Higashi", "Chuo", "Iidabashi@">>,
      <<"0", "1", "1", "JR~", "Chuo", " ">>,
      <<"3", "FF", "ff", "Dummy", "Dummy", "Dummy">>,
      <<"0", "1", "1", "JR-Higashi", "Chuo">>,
      <<"0", "zz", "1", "JR-Higashi", "Chuo", "Kanda">>,
      <<"-1", "1", "1", "JR-Higashi", "Chuo", "Kanda">> }

YonoTexts ==
    { <<YonoHeader>> \o rows :
        rows \in UNION { [1..n -> YonoPool] : n \in 0..MaxYonoRows } }

InitYono ==
    /\ pc = "step1"
    /\ yonoSource \in YonoTexts
    /\ resourcesCsv = NoFile
    /\ docsCsv = NoFile
    /\ startResources = NoFile
    /\ startDocs = NoFile
    /\ current = <<>>
    /\ yono = <<>>
    /\ merged = <<>>
    /\ argCurrent = <<>>
    /\ argYono = <<>>
    /\ preOverride = <<>>
    /\ firstResult = <<>>
    /\ stats = ZeroStats
    /\ warned = {}
    /\ verifyResult = <<>>
    /\ exitStatus = <<>>
    /\ fetchResult = <<>>

\* yono = download_yono() (line 433), and nothing after it.
NextYono == Step1Download

SpecYono == InitYono /\ [][NextYono]_vars

-----------------------------------------------------------------------------
(* Properties of download_yono.                                            *)

\* The rows of the source the loop body stores an entry for.
Accepted(rows) == { j \in 2..Len(rows) : ~YonoRow(rows[j]).skip }

\* The code points of the characters of a text.
CodePoints(text) == { Ord(CharAt(text, i)) : i \in 1..Len(text) }

\* The three names of a row as the loop body reads them (lines 163-165).
RowNames(row) == { Strip(row[4]), Strip(row[5]), Strip(row[6]) }

AgreesWithRange(flagged, cps) ==
    /\ flagged <=> \E c \in cps : c \in 128..591
    /\ (\A c \in cps : c <= 127 \/ c >= 592) => ~flagged

\* C17: is_garbled(text) is true exactly when some character of the text has
\* a code point from 0x0080 to 0x024F, both ends included: it is false for
\* the empty text and for a text whose characters are all at or below 0x007F
\* or at or above 0x0250.  Checked on every name cell of the source and on
\* every name download_yono stored.
C17_IsGarbled ==
    /\ ~is_garbled("")
    /\ \A i \in 2..Len(yonoSource) : \A f \in 4..Len(yonoSource[i]) :
          AgreesWithRange(is_garbled(yonoSource[i][f]), CodePoints(yonoSource[i][f]))
    /\ \A k \in DOMAIN yono :
          \A c \in CodePoints(yono[k].CompanyName)
                     \cup CodePoints(yono[k].LineName)
                     \cup CodePoints(yono[k].StationName) : c \notin 128..591

\* The loader ran on a source with a name whose only character in the range
\* is U+024F or U+0080, an end of the range, and a row it loaded whose names
\* hold U+007F and U+0250.
C17_Witness ==
    /\ pc = "step2"
    /\ \E i \in 2..Len(yonoSource) : \E f \in 1..Len(yonoSource[i]) :
          /\ f >= 4
          /\ CodePoints(yonoSource[i][f]) \cap 128..591 \in { {591}, {128} }
          /\ is_garbled(yonoSource[i][f])
    /\ \E k \in DOMAIN yono :
          /\ 127 \in CodePoints(yono[k].CompanyName)
          /\ 592 \in CodePoints(yono[k].LineName)

AllKeys == DOMAIN yono \cup DOMAIN current \cup DOMAIN merged

\* C21: every key a loader produces, and so every key of the merged map, is
\* a triple of integers none of which is negative, whatever the text of the
\* code cells; a row with a code cell that does not write a non-negative
\* integer gives no entry.
C21_NonNegativeKeys ==
    /\ \A k \in AllKeys : k[1] >= 0 /\ k[2] >= 0 /\ k[3] >= 0
    /\ pc = "step2" =>
          \A i \in Accepted(yonoSource) :
              \A f \in 1..3 : CharAt(Strip(yonoSource[i][f]), 1) # "-"

-----------------------------------------------------------------------------
(* read_current on its own: the files are the header followed by at most   *)
(* MaxCurrentRows rows of a pool, in every order and with repetition, or   *)
(* there is no file.                                                       *)

MaxCurrentRows == 2

\* Rows of a current CSV: one key written in several ways, with a test row;
\* a row of six cells; rows the loop skips; a row with garbled names, which
\* this loader does not test.
CurrentPool ==
    { <<"0", "1", "1", "JR-Higashi", "Chuo", "Kanda", "">>,
      <<"0", "1", "1", "Shiken", "Shiken-sen", "Dummy", "">>,
      <<" 0", "01", "+1", "JR-Higashi", "Chuo", " Ochanomizu ", " memo ">>,
      <<"0", "1", "2", "JR-Higashi", "Chuo", "Yotsuya">>,
      <<"0", "1", "2", "JR-Higashi", "Chuo", "  ", "">>,
      <<"0", "1", "1", "JR-Higashi", "Chuo">>,
      <<"0", "1f", "1", "JR-Higashi", "Chuo", "Kanda", "">>,
      <<"0", "1", "1", "JR~", "Chuo", "Kanda~", "">> }

CurrentTexts ==
    { File(<<HEADER>> \o rows) :
        rows \in UNION { [1..n -> CurrentPool] : n \in 0..MaxCurrentRows } }
    \cup { NoFile }

InitCurrent ==
    /\ pc = "step2"
    /\ yonoSource = <<YonoHeader>>
    /\ resourcesCsv \in CurrentTexts
    /\ docsCsv = NoFile
    /\ startResources = resourcesCsv
    /\ startDocs = NoFile
    /\ current = <<>>
    /\ yono = <<>>
    /\ merged = <<>>
    /\ argCurrent = <<>>
    /\ argYono = <<>>
    /\ preOverride = <<>>
    /\ firstResult = <<>>
    /\ stats = ZeroStats
    /\ warned = {}
    /\ verifyResult = <<>>
    /\ exitStatus = <<>>
    /\ fetchResult = <<TRUE>>

\* current = read_current() (line 436), and nothing after it.
NextCurrent == Step2ReadCurrent

SpecCurrent == InitCurrent /\ [][NextCurrent]_vars

\* The rows of the file the loop body appends an entry for.
AcceptedCurrent(rows) == { j \in 2..Len(rows) : ~CurrentRow(rows[j]).skip }

\* The entries of the accepted rows of a key, from row i on, in file order.
RECURSIVE EntriesOfKey(_, _, _)
EntriesOfKey(rows, i, key) ==
    IF i > Len(rows) THEN <<>>
    ELSE (IF ~CurrentRow(rows[i]).skip /\ CurrentRow(rows[i]).key = key
          THEN <<CurrentRow(rows[i]).entry>> ELSE <<>>)
         \o EntriesOfKey(rows, i + 1, key)

\* C25: the map read_current returns has, for each key, the non-empty list
\* of the entries of every accepted row of that key, in the order of the
\* rows in the file, none dropped and none moved; the lengths of the lists
\* add up to the number of accepted rows.
C25_CurrentKeepsDuplicates ==
    pc = "step3" =>
        LET rows == resourcesCsv.rows
        IN  /\ DOMAIN current
                 = { CurrentRow(rows[j]).key : j \in AcceptedCurrent(rows) }
            /\ \A k \in DOMAIN current :
                  /\ Len(current[k]) >= 1
                  /\ current[k] = EntriesOfKey(rows, 2, k)
            /\ ExtraRows(current, DOMAIN current) + Cardinality(DOMAIN current)
                 = Cardinality(AcceptedCurrent(rows))

\* A file with a test row and then a real row of one key, written in
\* different ways: the list of the key holds both, in that order.
C25_Witness ==
    /\ pc = "step3"
    /\ \E k \in DOMAIN current :
          /\ Len(current[k]) = 2
          /\ current[k][1].CompanyName = Shiken
          /\ current[k][2].CompanyName # Shiken
          /\ current[k][2].Note = "memo"

=============================================================================
